---- MODULE Spec2Model ----
(***************************************************************************)
(* A model of the retrieval-and-grounding pipeline of the RAG service:     *)
(*   - PDFProcessor.splitIntoChunks / cleanText / ExtractTextFromPDF       *)
(*   - SimpleRAGService.CalculateRelevanceScore                            *)
(*   - SimpleRAGService.ProcessPDF / Query / searchAllDocuments over the   *)
(*     relational store of DatabaseSchema                                  *)
(*                                                                         *)
(* Text is a sequence of characters.  A character is a TLA+ string that    *)
(* names one Unicode code point: ASCII characters name themselves,         *)
(* "e'" "a'" "o'" "n~" ... name accented Latin letters, "E'" the capital   *)
(* of "e'", and "fa1" "fa2" "fa3" name three Persian letters.  Go's len()  *)
(* counts UTF-8 bytes, so every character carries its encoded width.       *)
(***************************************************************************)
EXTENDS Integers, Sequences, FiniteSets, TLC

VARIABLES
    \* ---- PDFProcessor.splitIntoChunks, one call ----
    ck_text,      \* the text argument
    ck_words,     \* words := strings.Fields(text)
    ck_i,         \* number of loop iterations done (the Go index i of the next word)
    ck_cur,       \* currentChunk (strings.Builder)
    ck_chunks,    \* chunks, the texts of the PDFChunk values appended so far
    ck_pc,        \* "idle" | "loop" | "done"
    \* ---- SimpleRAGService.CalculateRelevanceScore, one call ----
    sc_q,         \* questionWords
    sc_chunk,     \* chunkText
    sc_order,     \* the orders in which the call's two maps were visited
    sc_score,     \* the returned score
    sc_pc,        \* "idle" | "call" | "done"
    \* ---- sort.Slice by score, one call ----
    sr_slice,     \* the slice before the call
    sr_sorted,    \* the slice after the call
    sr_pc,        \* "idle" | "call" | "done"
    \* ---- the service: configuration, relational store, requests ----
    appLanguage,  \* Config.AppLanguage
    LLM,          \* SimpleRAGService.LLM: "google" | "ollama" | "nil" (no backend)
    googleDNS,    \* the backend is the Gemini adapter and Config.GoogleDNS != ""
    DefaultResolver, \* net.DefaultResolver: 0 the resolver of package net, n the
                  \* resolver the n-th dial of the Gemini adapter's transport installed
    documents,    \* table documents: the rows, in insertion order
    document_chunks,       \* table document_chunks: primary key id -> row
    document_queries, \* table document_queries: the rows, in insertion order
    clock,        \* [id |-> next value of time.Now().UnixNano(), now |-> CURRENT_TIMESTAMP]
    faults,       \* number of collaborator calls that returned an error so far
    ing,          \* the ProcessPDF calls: slot -> locals and position
    flush,        \* the FlushAllData calls: locals and position
    qry           \* the Query / searchAllDocuments calls: locals and position

ckVars == <<ck_text, ck_words, ck_i, ck_cur, ck_chunks, ck_pc>>
scVars == <<sc_q, sc_chunk, sc_order, sc_score, sc_pc>>
srVars == <<sr_slice, sr_sorted, sr_pc>>

dbVars == <<documents, document_chunks, document_queries>>
svVars ==
    <<appLanguage, LLM, googleDNS, DefaultResolver, dbVars, clock, faults, ing, flush,
      qry>>

vars == <<ckVars, scVars, srVars, svVars>>

-----------------------------------------------------------------------------
(* Characters and strings                                                  *)

\* Code points whose UTF-8 encoding takes two bytes (U+0080..U+07FF).
WideChars == {"e'", "a'", "o'", "i'", "u'", "n~", "c,", "u:", "o:", "a:",
              "E'", "fa1", "fa2", "fa3"}

\* unicode.IsSpace, restricted to the characters of the model.
IsSpace(c) == c \in {" ", "\n", "\t"}

Min(S) == CHOOSE x \in S : \A y \in S : x <= y
Max(S) == CHOOSE x \in S : \A y \in S : x >= y

\* Go's len(s) of a string: the number of bytes of its UTF-8 encoding.
GoLen(s) == Len(s) + Cardinality({k \in DOMAIN s : s[k] \in WideChars})

\* utf8.RuneCountInString(s): the number of characters.
RuneCount(s) == Len(s)

RECURSIVE FieldsFrom(_, _, _)
FieldsFrom(s, i, sp) ==
    IF i > Len(s) THEN <<>>
    ELSE IF IsSpace(s[i]) THEN FieldsFrom(s, i + 1, sp)
    ELSE LET e == Min({k \in sp : k > i}) - 1
         IN  <<SubSeq(s, i, e)>> \o FieldsFrom(s, e + 1, sp)

\* strings.Fields(s): the maximal runs of non-space characters, in order.
Fields(s) == FieldsFrom(s, 1, {k \in DOMAIN s : IsSpace(s[k])} \cup {Len(s) + 1})

RECURSIVE Join(_, _)
\* strings.Join(parts, sep)
Join(parts, sep) ==
    IF Len(parts) = 0 THEN <<>>
    ELSE IF Len(parts) = 1 THEN parts[1]
    ELSE parts[1] \o sep \o Join(Tail(parts), sep)

\* strings.TrimSpace(s)
TrimSpace(s) ==
    IF \A k \in DOMAIN s : IsSpace(s[k]) THEN <<>>
    ELSE LET first == CHOOSE k \in DOMAIN s :
                         ~IsSpace(s[k]) /\ \A j \in 1..(k - 1) : IsSpace(s[j])
             last == CHOOSE k \in DOMAIN s :
                        ~IsSpace(s[k]) /\ \A j \in (k + 1)..Len(s) : IsSpace(s[j])
         IN  SubSeq(s, first, last)

\* strings.HasPrefix(s, p)
HasPrefix(s, p) == Len(p) <= Len(s) /\ SubSeq(s, 1, Len(p)) = p

\* strings.Contains(s, sub)
Contains(s, sub) ==
    \E k \in 0..(Len(s) - Len(sub)) : SubSeq(s, k + 1, k + Len(sub)) = sub

-----------------------------------------------------------------------------
(* PDFProcessor.splitIntoChunks                                            *)

maxChunkSize == 1000
overlapSize == 200
minChunkLen == 50

\* OverlapSeed with the slice taken one word late: overlapWords[overlapStart+1:].
OverlapSeedLate(chunkText) ==
    LET overlapWords == Fields(chunkText)
        raw == Len(overlapWords) - (overlapSize \div 10)
        overlapStart == IF raw < 0 THEN 0 ELSE raw
    IN  IF overlapStart < Len(overlapWords)
        THEN Join(SubSeq(overlapWords, overlapStart + 2, Len(overlapWords)), <<" ">>)
                 \o <<" ">>
        ELSE <<>>

\* The words seeded into the next chunk: overlapWords[overlapStart:].
OverlapSeed(chunkText) ==
    LET overlapWords == Fields(chunkText)
        raw == Len(overlapWords) - (overlapSize \div 10)
        overlapStart == IF raw < 0 THEN 0 ELSE raw
    IN  IF overlapStart < Len(overlapWords)
        THEN Join(SubSeq(overlapWords, overlapStart + 1, Len(overlapWords)), <<" ">>)
                 \o <<" ">>
        ELSE <<>>

\* The test that closes a chunk: the buffer reached the target or the input ended.
ShouldClose(buf, i, n) == GoLen(buf) >= maxChunkSize \/ i = n - 1

\* The test that keeps a closed chunk.
IsMeaningful(chunkText) == GoLen(chunkText) > minChunkLen

\* One iteration of the loop over words, for the Go index i (0-based):
\* the new currentChunk and chunks.
SplitIteration(words, i, cur, chunks) ==
    LET buf == cur \o words[i + 1] \o <<" ">>
        chunkText == TrimSpace(buf)
    IN  IF ShouldClose(buf, i, Len(words))
        THEN IF IsMeaningful(chunkText)
             THEN [cur    |-> IF i < Len(words) - 1 THEN OverlapSeed(chunkText) ELSE buf,
                   chunks |-> Append(chunks, chunkText)]
             ELSE [cur |-> <<>>, chunks |-> chunks]
        ELSE [cur |-> buf, chunks |-> chunks]

RECURSIVE SplitLoop(_, _, _, _)
SplitLoop(words, i, cur, chunks) ==
    IF i >= Len(words) THEN chunks
    ELSE LET r == SplitIteration(words, i, cur, chunks)
         IN  SplitLoop(words, i + 1, r.cur, r.chunks)

\* splitIntoChunks(text, pageNum, filename): the chunk texts, in order.
splitIntoChunks(text) == SplitLoop(Fields(text), 0, <<>>, <<>>)

-----------------------------------------------------------------------------
(* SimpleRAGService.CalculateRelevanceScore                                *)
(*                                                                         *)
(* A score is the exact rational num/den (den > 0) of the value the code   *)
(* computes in float64.                                                    *)

phraseBonus == 40
minPhraseLen == 8
exactWeight == 12
partialBonus == 4
minPartialLen == 4
coverageWeight == 20

ZeroScore == [num |-> 0, den |-> 1]
ScoreGt(a, b) == a.num * b.den > b.num * a.den
ScoreEq(a, b) == a.num * b.den = b.num * a.den
\* score > f/10, for the float literals 0.1, 0.2 and 1.0 of the call sites
ScoreAboveTenths(a, f) == 10 * a.num > f * a.den

UpperToLower ==
    [c \in {"A", "B", "C", "D", "E", "F", "G", "H", "I", "J", "K", "L", "M", "N",
            "O", "P", "Q", "R", "S", "T", "U", "V", "W", "X", "Y", "Z", "E'"} |->
        CASE c = "A" -> "a" [] c = "B" -> "b" [] c = "C" -> "c" [] c = "D" -> "d"
          [] c = "E" -> "e" [] c = "F" -> "f" [] c = "G" -> "g" [] c = "H" -> "h"
          [] c = "I" -> "i" [] c = "J" -> "j" [] c = "K" -> "k" [] c = "L" -> "l"
          [] c = "M" -> "m" [] c = "N" -> "n" [] c = "O" -> "o" [] c = "P" -> "p"
          [] c = "Q" -> "q" [] c = "R" -> "r" [] c = "S" -> "s" [] c = "T" -> "t"
          [] c = "U" -> "u" [] c = "V" -> "v" [] c = "W" -> "w" [] c = "X" -> "x"
          [] c = "Y" -> "y" [] c = "Z" -> "z" [] c = "E'" -> "e'"]

\* strings.ToLower(s)
ToLower(s) ==
    [k \in DOMAIN s |-> IF s[k] \in DOMAIN UpperToLower THEN UpperToLower[s[k]] ELSE s[k]]

\* The accent-folding table, in the order the source lists it: <<old, new>>.
replacements ==
    << <<"o'", "o">>, <<"a'", "a">>, <<"e'", "e">>, <<"i'", "i">>, <<"u'", "u">>,
       <<"n~", "n">>, <<"c,", "c">>, <<"u:", "u">>, <<"o:", "o">>, <<"a:", "a">> >>

\* strings.ReplaceAll(s, old, new) for one-character old and new
ReplaceAll(s, old, new) == [k \in DOMAIN s |-> IF s[k] = old THEN new ELSE s[k]]

RECURSIVE FoldAccents(_, _)
\* for old, new := range replacements { s = strings.ReplaceAll(s, old, new) },
\* the map visited in the order `order` (a sequence of indices of the table)
FoldAccents(s, order) ==
    IF order = <<>> THEN s
    ELSE FoldAccents(ReplaceAll(s, replacements[Head(order)][1],
                                   replacements[Head(order)][2]), Tail(order))

AlnumOrSpace ==
    {"a", "b", "c", "d", "e", "f", "g", "h", "i", "j", "k", "l", "m", "n", "o", "p",
     "q", "r", "s", "t", "u", "v", "w", "x", "y", "z",
     "0", "1", "2", "3", "4", "5", "6", "7", "8", "9", " "}

\* The closure `normalize` of CalculateRelevanceScore.
normalize(s, order) ==
    LET folded == FoldAccents(ToLower(s), order)
        spaced == [k \in DOMAIN folded |->
                      IF folded[k] \in AlnumOrSpace THEN folded[k] ELSE " "]
    IN  Join(Fields(spaced), <<" ">>)

\* chunkTF: token -> number of occurrences among chunkTokens
TermFrequency(chunkTokens) ==
    [t \in {chunkTokens[k] : k \in DOMAIN chunkTokens} |->
        Cardinality({k \in DOMAIN chunkTokens : chunkTokens[k] = t})]

\* PartialHit with the break taken after the first key, hit or not.
PartialHitFirstOnly(q, keys) ==
    IF keys = <<>> THEN FALSE
    ELSE Contains(Head(keys), q) \/ Contains(q, Head(keys))

RECURSIVE PartialHit(_, _)
\* for token := range chunkTF { if Contains(token,q) || Contains(q,token) { hit; break } },
\* the map's keys visited in the order `keys`
PartialHit(q, keys) ==
    IF keys = <<>> THEN FALSE
    ELSE IF Contains(Head(keys), q) \/ Contains(q, Head(keys)) THEN TRUE
    ELSE PartialHit(q, Tail(keys))

\* The contribution of one exact match, in tenths: 12.0 * (1.0 + 0.1*float64(tf-1))
ExactCredit(tf) == 10 * exactWeight + exactWeight * (tf - 1)

RECURSIVE MatchLoop(_, _, _, _, _, _)
\* for _, q := range questionTokens { ... }: the pair (covered, score in tenths)
MatchLoop(questionTokens, k, chunkTF, keys, covered, acc) ==
    IF k > Len(questionTokens) THEN [covered |-> covered, acc |-> acc]
    ELSE LET q == questionTokens[k]
         IN  IF q \in DOMAIN chunkTF
             THEN MatchLoop(questionTokens, k + 1, chunkTF, keys, covered + 1,
                            acc + ExactCredit(chunkTF[q]))
             ELSE IF GoLen(q) >= minPartialLen /\ PartialHit(q, keys)
             THEN MatchLoop(questionTokens, k + 1, chunkTF, keys, covered,
                            acc + 10 * partialBonus)
             ELSE MatchLoop(questionTokens, k + 1, chunkTF, keys, covered, acc)

\* The exact phrase bonus, in tenths.
PhraseCredit(normalizedChunk, normalizedQuestion) ==
    IF Contains(normalizedChunk, normalizedQuestion)
       /\ GoLen(normalizedQuestion) >= minPhraseLen
    THEN 10 * phraseBonus ELSE 0

\* (acc/10 + 20 * covered/n) / (1 + 0.05 * n), as an exact fraction
FinalScore(acc, covered, n) ==
    [num |-> 2 * (acc * n + 10 * coverageWeight * covered), den |-> n * (20 + n)]

Range(f) == {f[k] : k \in DOMAIN f}

RECURSIVE SomeOrder(_)
\* One order of visit of a map with key set S.
SomeOrder(S) ==
    IF S = {} THEN <<>>
    ELSE LET x == CHOOSE x \in S : TRUE IN <<x>> \o SomeOrder(S \ {x})

\* The keys S of a map in an order of visit: those the sequence p lists, in
\* its order, then the others.
KeyOrderFrom(p, S) ==
    SelectSeq(p, LAMBDA t : t \in S) \o SomeOrder(S \ Range(p))

\* The score of one evaluation: the accent table visited in the order
\* replOrder, the keys of chunkTF in the order keyOrder gives.
ScoreWithOrders(questionWords, chunkText, replOrder, keyOrder) ==
    LET normalizedChunk == normalize(chunkText, replOrder)
        normalizedQuestion == normalize(Join(questionWords, <<" ">>), replOrder)
        chunkTokens == Fields(normalizedChunk)
        questionTokens == Fields(normalizedQuestion)
    IN  IF Len(chunkTokens) = 0 \/ Len(questionTokens) = 0 THEN ZeroScore
        ELSE LET chunkTF == TermFrequency(chunkTokens)
                 m == MatchLoop(questionTokens, 1, chunkTF,
                                KeyOrderFrom(keyOrder, DOMAIN chunkTF), 0,
                                PhraseCredit(normalizedChunk, normalizedQuestion))
             IN  FinalScore(m.acc, m.covered, Len(questionTokens))

\* All orders in which a map with key set S can be visited.
Perms(S) ==
    {f \in [1..Cardinality(S) -> S] : \A a, b \in 1..Cardinality(S) : f[a] = f[b] => a = b}

SourceOrder == [k \in 1..Len(replacements) |-> k]

\* CalculateRelevanceScore(questionWords, chunkText), one of its evaluations.
CalculateRelevanceScore(questionWords, chunkText) ==
    ScoreWithOrders(questionWords, chunkText, SourceOrder, <<>>)

-----------------------------------------------------------------------------
(* PDFProcessor.cleanText and ExtractTextFromPDF                           *)

Digits == {"0", "1", "2", "3", "4", "5", "6", "7", "8", "9"}
\* \s of Go's regexp: [\t\n\f\r ], restricted to the characters of the model
IsReSpace(c) == c \in {" ", "\n", "\t"}
\* unicode.IsPrint(r) || r == '\n' || r == '\t'
IsKept(c) == c # "NUL"

RECURSIVE CollapseSpace(_, _)
\* regexp `\s+` replaced by " ": s from position i on
CollapseSpace(s, i) ==
    IF i > Len(s) THEN <<>>
    ELSE IF IsReSpace(s[i])
         THEN IF i > 1 /\ IsReSpace(s[i - 1]) THEN CollapseSpace(s, i + 1)
              ELSE <<" ">> \o CollapseSpace(s, i + 1)
         ELSE <<s[i]>> \o CollapseSpace(s, i + 1)

\* regexp `^\s*\d+\s*$`: the whole text is one number
IsLoneNumber(s) ==
    LET t == TrimSpace(s)
    IN  Len(t) > 0 /\ \A k \in DOMAIN t : t[k] \in Digits

\* cleanText(text).  After the first replacement the text holds no newline,
\* so the patterns `\n\s*\d+\s*\n` and `\n{3,}` match nothing.
cleanText(text) ==
    LET collapsed == CollapseSpace(text, 1)
        unnumbered == IF IsLoneNumber(collapsed) THEN <<>> ELSE collapsed
    IN  TrimSpace(SelectSeq(unnumbered, IsKept))

\* fmt.Sprintf("%s_p%d_c%d", filename, pageNum, chunkID)
ChunkIDOf(filename, pageNum, chunkID) == <<filename, pageNum, chunkID>>

RECURSIVE ExtractPages(_, _, _, _)
\* The loop over the pages of ExtractTextFromPDF: the chunks of pages
\* pageNum.., chunkID being the running counter over the whole file.
ExtractPages(pdf, filename, pageNum, chunkID) ==
    IF pageNum > Len(pdf.pages) THEN <<>>
    ELSE LET page == pdf.pages[pageNum]
             cleanedText == cleanText(page.content)
             texts == IF page.null \/ page.err \/ cleanedText = <<>>
                      THEN <<>> ELSE splitIntoChunks(cleanedText)
             pageChunks == [i \in 1..Len(texts) |->
                              [Text |-> texts[i], Page |-> pageNum,
                               ChunkID |-> ChunkIDOf(filename, pageNum, chunkID + i - 1)]]
         IN  pageChunks \o ExtractPages(pdf, filename, pageNum + 1, chunkID + Len(texts))

\* ExtractTextFromPDF(pdfData, filename): [err, chunks]
ExtractTextFromPDF(pdf, filename) ==
    IF pdf.bad THEN [err |-> TRUE, chunks |-> <<>>]
    ELSE [err |-> FALSE, chunks |-> ExtractPages(pdf, filename, 1, 0)]

-----------------------------------------------------------------------------
(* DatabaseSchema: the statements, as functions of the tables              *)

\* InsertDocument: the row appended (document ids are distinct, so the
\* ON DUPLICATE KEY branch is not taken).
InsertDocument(docs, doc) == Append(docs, doc)

\* UpdateDocumentStatus(id, status)
UpdateDocumentStatus(docs, id, status) ==
    [k \in DOMAIN docs |-> IF docs[k].ID = id THEN [docs[k] EXCEPT !.Status = status]
                           ELSE docs[k]]

\* UpdateDocumentChunkCount(id, count)
UpdateDocumentChunkCount(docs, id, count) ==
    [k \in DOMAIN docs |-> IF docs[k].ID = id THEN [docs[k] EXCEPT !.ChunkCount = count]
                           ELSE docs[k]]

DocIDs(docs) == {docs[k].ID : k \in DOMAIN docs}

\* InsertChunk(chunk): INSERT ... ON DUPLICATE KEY UPDATE chunk_text, metadata.
\* A row with the same id keeps its document_id, page_number and chunk_index;
\* a new row needs its document to exist (FOREIGN KEY document_id).
InsertChunk(docs, chs, rec) ==
    IF rec.ID \in DOMAIN chs
    THEN [ok |-> TRUE,
          chunks |-> [chs EXCEPT ![rec.ID] = [@ EXCEPT !.ChunkText = rec.ChunkText]]]
    ELSE IF rec.DocumentID \in DocIDs(docs)
    THEN [ok |-> TRUE,
          chunks |-> [id \in DOMAIN chs \cup {rec.ID} |->
                         IF id = rec.ID THEN rec ELSE chs[id]]]
    ELSE [ok |-> FALSE, chunks |-> chs]

\* The rows of table document_chunks.
ChunkRows(chs) == {chs[id] : id \in DOMAIN chs}

\* DELETE FROM documents (ON DELETE CASCADE removes the chunks of each row)
DeleteAllDocuments(docs, chs) ==
    [documents |-> <<>>,
     chunks |-> [id \in {i \in DOMAIN chs : chs[i].DocumentID \notin DocIDs(docs)} |->
                    chs[id]]]

-----------------------------------------------------------------------------
(* Inputs of the service                                                   *)

\* The numbers of ProcessPDF calls and of FlushAllData calls of a run, and the
\* number of collaborator calls (object store, database, generation backend)
\* that return an error in it.
MaxIngest == 2
MaxFlush == 1
MaxFaults == 1

FileNames == {"a.pdf", "b.pdf"}
\* File names are interchangeable: the first upload is named "a.pdf".
UploadNames(p) == IF p = 1 THEN {"a.pdf"} ELSE FileNames

\* Texts of pages, as page.GetPlainText returns them.
Page ==
    [paris |->
        << "P", "a", "r", "i", "s", " ", "i", "s", " ", "t", "h", "e",
           " ", "c", "a", "p", "i", "t", "a", "l", " ", "o", "f", " ",
           "F", "r", "a", "n", "c", "e", ".", "\n", "\n", "P", "a", "r",
           "i", "s", " ", " ", "i", "s", " ", "a", " ", "c", "i", "t",
           "y", " ", "o", "n", " ", "t", "h", "e", " ", "S", "e", "i",
           "n", "e", "." >>,
     berlin |->
        << "B", "e", "r", "l", "i", "n", " ", "i", "s", " ", "t", "h",
           "e", " ", "c", "a", "p", "i", "t", "a", "l", " ", "o", "f",
           " ", "G", "e", "r", "m", "a", "n", "y", ",", " ", "a", " ",
           "c", "i", "t", "y", " ", "o", "n", " ", "t", "h", "e", " ",
           "S", "p", "r", "e", "e", "." >>,
     number |->
        << " ", "7", "\n" >>,
     noise |->
        << "P", "a", "r", "i", "s", "NUL", " ", "n", "o", "t", "e", "s" >>,
     rome |->
        << "R", "o", "m", "e", ",", " ", "t", "h", "e", " ", "c", "a",
           "p", "i", "t", "a", "l", " ", "o", "f", " ", "I", "t", "a",
           "l", "y", ",", " ", "s", "t", "a", "n", "d", "s", " ", "o",
           "n", " ", "t", "h", "e", " ", "b", "a", "n", "k", "s", " ",
           "o", "f", " ", "t", "h", "e", " ", "r", "i", "v", "e", "r",
           " ", "T", "i", "b", "e", "r", "." >>]

TextPage(content) == [null |-> FALSE, err |-> FALSE, content |-> content]
NullPage == [null |-> TRUE, err |-> FALSE, content |-> <<>>]
UnreadablePage == [null |-> FALSE, err |-> TRUE, content |-> <<>>]

\* The uploaded files: what pdf.NewReader and page.GetPlainText make of them.
Pdfs ==
    [paris   |-> [bad |-> FALSE, pages |-> <<TextPage(Page.paris)>>],
     two     |-> [bad |-> FALSE, pages |-> <<TextPage(Page.berlin), TextPage(Page.paris)>>],
     blank   |-> [bad |-> FALSE,
                  pages |-> <<TextPage(Page.number), NullPage, UnreadablePage,
                              TextPage(Page.noise)>>],
     corrupt |-> [bad |-> TRUE, pages |-> <<>>],
     berlin  |-> [bad |-> FALSE, pages |-> <<TextPage(Page.berlin)>>],
     rome    |-> [bad |-> FALSE, pages |-> <<TextPage(Page.rome)>>]]

\* The files a running service is sent.
PdfNames == {"paris", "two", "blank", "corrupt"}

\* ExtractTextFromPDF of each of these files under each name, computed once.
Extracted ==
    [pdf \in PdfNames, filename \in FileNames |-> ExtractTextFromPDF(Pdfs[pdf], filename)]

\* The number of Query / searchAllDocuments calls of a run, the number of
\* requests in progress at the same time, and the number of requests of a run.
MaxQuery == 1
MaxActive == 2
MaxCalls == 3

QuestionParis ==
    << "W", "h", "e", "r", "e", " ", "i", "s", " ", "P", "a", "r",
       "i", "s", "?" >>

QuestionFa == <<"fa1", "fa2", " ", "fa3", "fa1">>

Questions == {QuestionParis, QuestionFa}

\* The phrases of an answer that mean the context had no answer; fa stands
\* for the Persian sentence "there is not enough information in the text".
Marker ==
    [thatInformation |->
        << "i", " ", "d", "o", "n", "'", "t", " ", "h", "a", "v", "e",
           " ", "t", "h", "a", "t", " ", "i", "n", "f", "o", "r", "m",
           "a", "t", "i", "o", "n" >>,
     enoughInformation |->
        << "i", " ", "d", "o", "n", "'", "t", " ", "h", "a", "v", "e",
           " ", "e", "n", "o", "u", "g", "h", " ", "i", "n", "f", "o",
           "r", "m", "a", "t", "i", "o", "n" >>,
     notFound |->
        << "n", "o", "t", " ", "f", "o", "u", "n", "d", " ", "i", "n",
           " ", "t", "h", "e", " ", "p", "r", "o", "v", "i", "d", "e",
           "d", " ", "d", "o", "c", "u", "m", "e", "n", "t", "s" >>,
     notAvailable |->
        << "n", "o", "t", " ", "a", "v", "a", "i", "l", "a", "b", "l",
           "e", " ", "i", "n", " ", "t", "h", "e", " ", "c", "o", "n",
           "t", "e", "x", "t" >>,
     fa |->
        <<"fa3", "fa1", " ", "fa2", "fa2", " ", "fa1", "fa3">>]

\* Stands for the Persian sentence "there is not enough information in the text".

\* Texts of the generation backend.
Answer ==
    [plain |->
        << "P", "a", "r", "i", "s", "." >>,
     hedged |->
        << "P", "a", "r", "i", "s", ".", " ", "B", "u", "t", " ", "I",
           " ", "D", "O", "N", "'", "T", " ", "H", "A", "V", "E", " ",
           "E", "N", "O", "U", "G", "H", " ", "I", "N", "F", "O", "R",
           "M", "A", "T", "I", "O", "N", " ", "o", "n", " ", "i", "t",
           "." >>,
     notFound |->
        << "N", "o", "t", " ", "f", "o", "u", "n", "d", " ", "i", "n",
           " ", "t", "h", "e", " ", "p", "r", "o", "v", "i", "d", "e",
           "d", " ", "d", "o", "c", "u", "m", "e", "n", "t", "s" >>,
     that |->
        << "I", " ", "d", "o", "n", "'", "t", " ", "h", "a", "v", "e",
           " ", "t", "h", "a", "t", " ", "i", "n", "f", "o", "r", "m",
           "a", "t", "i", "o", "n" >>,
     notAvailable |->
        << "I", "t", " ", "i", "s", " ", "n", "o", "t", " ", "a", "v",
           "a", "i", "l", "a", "b", "l", "e", " ", "i", "n", " ", "t",
           "h", "e", " ", "c", "o", "n", "t", "e", "x", "t", "." >>,
     fa |-> Marker.fa \o <<".">>]

\* What the generation backend may return for an answer prompt.
Answers == Range(Answer)

\* What the generation backend may return for a translation prompt.
Translations == {<<"P", "a", "r", "i", "s">>, <<" ">>}

\* The outcomes a fallible collaborator call can have now: FALSE is success,
\* TRUE an error; at most MaxFaults calls fail in a run.
Outcomes == IF faults < MaxFaults THEN {FALSE, TRUE} ELSE {FALSE}
Count(failed) == IF failed THEN 1 ELSE 0

-----------------------------------------------------------------------------
(* The values of the variables of a part of the model that is not running *)

ChunkIdle ==
    /\ ck_text = <<>>
    /\ ck_words = <<>>
    /\ ck_i = 0
    /\ ck_cur = <<>>
    /\ ck_chunks = <<>>
    /\ ck_pc = "idle"

ScoreIdle ==
    /\ sc_q = <<>>
    /\ sc_chunk = <<>>
    /\ sc_order = <<>>
    /\ sc_score = [num |-> 0, den |-> 1]
    /\ sc_pc = "idle"

SortIdle ==
    /\ sr_slice = <<>>
    /\ sr_sorted = <<>>
    /\ sr_pc = "idle"

QryIdle ==
    [pc |-> "idle", runs |-> 0, kind |-> "", question |-> <<>>, questionWords |-> <<>>,
     documents |-> <<>>, di |-> 0, allChunks |-> <<>>, contextParts |-> <<>>,
     bestScore |-> [num |-> 0, den |-> 1], context |-> <<>>, answered |-> FALSE,
     answer |-> <<>>, si |-> 0, sourceChunks |-> <<>>, sourceScores |-> <<>>,
     response |-> [Answer |-> <<>>, Sources |-> <<>>,
                   Confidence |-> [num |-> 0, den |-> 1], Context |-> <<>>],
     err |-> "nil", llmCalls |-> 0, translateCalls |-> 0,
     firstPass |-> -1, audit |-> <<>>]

IngIdle ==
    [pc |-> "idle", filename |-> "", documentID |-> 0, created |-> FALSE,
     extractErr |-> FALSE, chunks |-> <<>>, k |-> 0, err |-> "nil"]

ServiceIdle ==
    /\ appLanguage = "en"
    /\ LLM = "google"
    /\ googleDNS = FALSE
    /\ DefaultResolver = 0
    /\ documents = <<>>
    /\ document_chunks = [id \in {} |-> 0]
    /\ document_queries = <<>>
    /\ clock = [id |-> 1, now |-> 0]
    /\ faults = 0
    /\ ing = [p \in 1..MaxIngest |-> IngIdle]
    /\ flush = [pc |-> "idle", runs |-> 0]
    /\ qry = QryIdle

\* The number of requests received.
Started ==
    Cardinality({p \in DOMAIN ing : ing[p].pc # "idle"}) + flush.runs + qry.runs

\* The number of requests in progress.
Active ==
    Cardinality({p \in DOMAIN ing : ing[p].pc \notin {"idle", "returned"}})
    + (IF qry.pc \in {"idle", "returned"} THEN 0 ELSE 1)
    + (IF flush.pc = "idle" THEN 0 ELSE 1)

\* The process is running: no handler has panicked (the server installs no
\* recover, so a panic of a handler ends the process).
Running == qry.pc # "panic"

\* A further request is accepted.
MayStart == Running /\ Active < MaxActive /\ Started < MaxCalls

-----------------------------------------------------------------------------
(* Inputs of the chunker: page texts as cleanText leaves them (words       *)
(* separated by single spaces, no leading or trailing space).              *)

MaxWords == 24
MaxTextChars == 1600

Letters == <<"a", "b", "c", "d", "e">>
WideLetters == <<"fa1", "e'", "fa2", "n~", "fa3">>

\* Word j of a generated text: one letter repeated; neighbouring words differ
\* in letter and in length.
GenWord(j, L, wide) ==
    LET c == IF wide THEN WideLetters[(j % 5) + 1] ELSE Letters[(j % 5) + 1]
    IN  [k \in 1..(L + (j % 3)) |-> c]

GenText(n, L, wide) == Join([j \in 1..n |-> GenWord(j, L, wide)], <<" ">>)

WordLens == {1, 24, 26, 44, 48, 50, 51, 499, 1000}

\* A text of n words of length about L, or a long word followed by n
\* one-letter words and a last word "z".
ChunkInputs ==
    {GenText(p[1], p[2], p[3]) :
        p \in {q \in (0..MaxWords) \X WordLens \X BOOLEAN :
                 q[1] * (q[2] + 2) <= MaxTextChars}}
    \cup
    {Join(<<[k \in 1..p[1] |-> "x"]>> \o [j \in 1..p[2] |-> <<Letters[(j % 5) + 1]>>]
              \o << <<"z">> >>, <<" ">>) :
        p \in {960, 999} \X (0..(MaxWords - 2))}

ChunkInit ==
    /\ ScoreIdle
    /\ SortIdle
    /\ ServiceIdle
    /\ ck_text \in ChunkInputs
    /\ ck_words = Fields(ck_text)
    /\ ck_i = 0
    /\ ck_cur = <<>>
    /\ ck_chunks = <<>>
    /\ ck_pc = "loop"

\* for i, word := range words { ... }
ChunkStep ==
    /\ ck_pc = "loop"
    /\ ck_i < Len(ck_words)
    /\ LET r == SplitIteration(ck_words, ck_i, ck_cur, ck_chunks)
       IN  /\ ck_cur' = r.cur
           /\ ck_chunks' = r.chunks
    /\ ck_i' = ck_i + 1
    /\ UNCHANGED <<ck_text, ck_words, ck_pc>>
    /\ UNCHANGED <<scVars, srVars, svVars>>

\* return chunks
ChunkReturn ==
    /\ ck_pc = "loop"
    /\ ck_i >= Len(ck_words)
    /\ ck_pc' = "done"
    /\ UNCHANGED <<ck_text, ck_words, ck_i, ck_cur, ck_chunks>>
    /\ UNCHANGED <<scVars, srVars, svVars>>

ChunkNext == ChunkStep \/ ChunkReturn

SpecChunk == ChunkInit /\ [][ChunkNext]_vars

-----------------------------------------------------------------------------
(* Inputs of the scorer                                                    *)

MaxQWords == 2

\* The words of the questions and chunk texts.
Word ==
    [paris    |-> <<"p", "a", "r", "i", "s">>,
     pari     |-> <<"p", "a", "r", "i">>,
     par      |-> <<"p", "a", "r">>,
     parisian |-> <<"p", "a", "r", "i", "s", "i", "a", "n">>,
     cafe     |-> <<"c", "a", "f", "e'">>,
     CAFE     |-> <<"C", "A", "F", "E'">>,
     coop     |-> <<"c", "o", "-", "o", "p">>,
     is       |-> <<"i", "s">>,
     fa       |-> <<"fa1", "fa2", "fa3">>]

QVocab == {Word.paris, Word.pari, Word.par, Word.cafe, Word.fa}

ScoreQuestions ==
    UNION {[1..n -> QVocab] : n \in 0..MaxQWords} \cup {<<Word.parisian>>, <<Word.coop>>}

ScoreChunks ==
    { <<>>,
      Word.paris,
      Join(<<Word.paris, Word.is, Word.paris>>, <<" ">>),
      Join(<<Word.parisian, Word.CAFE>>, <<" ">>),
      Join(<<Word.cafe, Word.parisian>>, <<" ">>),
      Join(<<Word.cafe, Word.coop>>, <<".", "\n">>),
      Join(<<Word.fa, Word.par, Word.is>>, <<" ">>),
      Join(<<Word.pari, Word.cafe, Word.pari, Word.paris>>, <<" ">>),
      Word.fa }

RotSteps == {0, 3, 7}
Rot(k) == [i \in 1..Len(replacements) |-> ((i + k - 1) % Len(replacements)) + 1]
Rev(o) == [i \in 1..Len(o) |-> o[Len(o) + 1 - i]]
\* Orders in which the accent table is visited.
ReplOrders == {Rot(k) : k \in RotSteps} \cup {Rev(Rot(k)) : k \in RotSteps}

\* The tokens a chunk text can contribute as keys of chunkTF.
ChunkKeys(chunkText) ==
    LET toks == Fields(normalize(chunkText, SourceOrder))
    IN  {toks[k] : k \in DOMAIN toks}

ScoreInit ==
    /\ ChunkIdle
    /\ SortIdle
    /\ ServiceIdle
    /\ sc_q \in ScoreQuestions
    /\ sc_chunk \in ScoreChunks
    /\ sc_order = <<>>
    /\ sc_score = [num |-> 0, den |-> 1]
    /\ sc_pc = "call"

\* One evaluation of CalculateRelevanceScore(sc_q, sc_chunk); the runtime
\* picks the iteration orders of the two maps.
ScoreCall ==
    /\ sc_pc = "call"
    /\ \E ro \in ReplOrders, p \in Perms(ChunkKeys(sc_chunk)) :
          /\ sc_score' = ScoreWithOrders(sc_q, sc_chunk, ro, p)
          /\ sc_order' = <<ro, p>>
    /\ sc_pc' = "done"
    /\ UNCHANGED <<sc_q, sc_chunk>>
    /\ UNCHANGED <<ckVars, srVars, svVars>>

ScoreNext == ScoreCall

SpecScore == ScoreInit /\ [][ScoreNext]_vars

-----------------------------------------------------------------------------
(* SimpleRAGService.ProcessPDF                                             *)

\* Entry to the first store writes: PutObject, InsertDocument, and the
\* extraction that follows them, which touches no shared state.
ProcessPDFStart(p) ==
    /\ ing[p].pc = "idle"
    /\ \A o \in 1..(p - 1) : ing[o].pc # "idle"
    /\ MayStart
    /\ \E filename \in UploadNames(p), pdf \in PdfNames :
         LET documentID == clock.id
             ex == Extracted[pdf, filename]
         IN  \E putFails \in Outcomes, later \in (IF p = 1 THEN {0} ELSE {0, 1}) :
             \E insertFails \in (IF putFails THEN {FALSE} ELSE Outcomes) :
               /\ clock' = [id |-> clock.id + 1, now |-> clock.now + later]
               /\ faults' = faults + Count(putFails) + Count(insertFails)
               /\ IF putFails
                  THEN /\ UNCHANGED documents
                       /\ ing' = [ing EXCEPT ![p] =
                                    [IngIdle EXCEPT !.pc = "returned",
                                                    !.filename = filename,
                                                    !.documentID = documentID,
                                                    !.err = "put"]]
                  ELSE IF insertFails
                  THEN /\ UNCHANGED documents
                       /\ ing' = [ing EXCEPT ![p] =
                                    [IngIdle EXCEPT !.pc = "returned",
                                                    !.filename = filename,
                                                    !.documentID = documentID,
                                                    !.err = "insert"]]
                  ELSE /\ documents' = InsertDocument(documents,
                                          [ID |-> documentID,
                                           OriginalFilename |-> filename,
                                           Status |-> "processing",
                                           ChunkCount |-> 0,
                                           CreatedAt |-> clock.now + later])
                       /\ ing' = [ing EXCEPT ![p] =
                                    [pc |-> IF ex.err \/ Len(ex.chunks) = 0
                                            THEN "reject" ELSE "store",
                                     filename |-> filename,
                                     documentID |-> documentID,
                                     created |-> TRUE,
                                     extractErr |-> ex.err,
                                     chunks |-> ex.chunks,
                                     k |-> 0,
                                     err |-> "nil"]]
    /\ UNCHANGED <<LLM, googleDNS, DefaultResolver>>
    /\ UNCHANGED <<appLanguage, document_chunks, document_queries, flush, qry>>
    /\ UNCHANGED <<ckVars, scVars, srVars>>

\* The extraction failed or gave no chunk: UpdateDocumentStatus(documentID,
\* "failed"), its error dropped, and the error return.
ProcessPDFReject(p) ==
    /\ Running
    /\ ing[p].pc = "reject"
    /\ \E updateFails \in Outcomes :
         /\ faults' = faults + Count(updateFails)
         /\ documents' = IF updateFails THEN documents
                         ELSE UpdateDocumentStatus(documents, ing[p].documentID, "failed")
    /\ ing' = [ing EXCEPT ![p].pc = "returned",
                          ![p].err = IF ing[p].extractErr THEN "extract" ELSE "nochunks"]
    /\ UNCHANGED <<LLM, googleDNS, DefaultResolver>>
    /\ UNCHANGED <<appLanguage, document_chunks, document_queries, clock, flush, qry>>
    /\ UNCHANGED <<ckVars, scVars, srVars>>

\* The ChunkRecord of chunks[i] (Go index i) of a call.
ChunkRecordOf(documentID, chunk, i) ==
    [ID |-> chunk.ChunkID, DocumentID |-> documentID, ChunkText |-> chunk.Text,
     PageNumber |-> chunk.Page, ChunkIndex |-> i]

\* One iteration of `for i, chunk := range chunks`: InsertChunk, an error logged.
ProcessPDFStoreChunk(p) ==
    /\ Running
    /\ ing[p].pc = "store"
    /\ ing[p].k < Len(ing[p].chunks)
    /\ \E insertFails \in Outcomes :
         LET rec == ChunkRecordOf(ing[p].documentID, ing[p].chunks[ing[p].k + 1], ing[p].k)
             r == InsertChunk(documents, document_chunks, rec)
         IN  /\ faults' = faults + Count(insertFails)
             /\ document_chunks' = IF insertFails THEN document_chunks ELSE r.chunks
    /\ ing' = [ing EXCEPT ![p].k = @ + 1,
                          ![p].pc = IF ing[p].k + 1 = Len(ing[p].chunks)
                                    THEN "count" ELSE "store"]
    /\ UNCHANGED <<LLM, googleDNS, DefaultResolver>>
    /\ UNCHANGED <<appLanguage, documents, document_queries, clock, flush, qry>>
    /\ UNCHANGED <<ckVars, scVars, srVars>>

\* UpdateDocumentChunkCount(documentID, len(chunks)) and
\* UpdateDocumentStatus(documentID, "completed"), the error of either logged;
\* return nil.  No other request reads chunk_count, so the two statements are
\* one step.
ProcessPDFComplete(p) ==
    /\ Running
    /\ ing[p].pc = "count"
    /\ \E countFails \in Outcomes :
         \E statusFails \in (IF countFails THEN {FALSE} ELSE Outcomes) :
           LET counted == IF countFails THEN documents
                          ELSE UpdateDocumentChunkCount(documents, ing[p].documentID,
                                                        Len(ing[p].chunks))
           IN  /\ faults' = faults + Count(countFails) + Count(statusFails)
               /\ documents' = IF statusFails THEN counted
                               ELSE UpdateDocumentStatus(counted, ing[p].documentID,
                                                         "completed")
    /\ ing' = [ing EXCEPT ![p].pc = "returned"]
    /\ UNCHANGED <<LLM, googleDNS, DefaultResolver>>
    /\ UNCHANGED <<appLanguage, document_chunks, document_queries, clock, flush, qry>>
    /\ UNCHANGED <<ckVars, scVars, srVars>>

-----------------------------------------------------------------------------
(* DatabaseSchema.FlushAllData                                             *)

\* The deletes of chat_messages, chat_sessions and document_chunks; the first
\* statement that fails ends the call.
FlushChunks ==
    /\ flush.pc = "idle"
    /\ flush.runs < MaxFlush
    /\ MayStart
    /\ \E fails \in Outcomes :
         /\ faults' = faults + Count(fails)
         /\ document_chunks' = IF fails THEN document_chunks ELSE [id \in {} |-> 0]
         /\ flush' = [pc |-> IF fails THEN "idle" ELSE "documents",
                      runs |-> flush.runs + 1]
    /\ UNCHANGED <<LLM, googleDNS, DefaultResolver>>
    /\ UNCHANGED <<appLanguage, documents, document_queries, clock, ing, qry>>
    /\ UNCHANGED <<ckVars, scVars, srVars>>

\* DELETE FROM documents
FlushDocuments ==
    /\ Running
    /\ flush.pc = "documents"
    /\ \E fails \in Outcomes :
         LET r == DeleteAllDocuments(documents, document_chunks)
         IN  /\ faults' = faults + Count(fails)
             /\ documents' = IF fails THEN documents ELSE r.documents
             /\ document_chunks' = IF fails THEN document_chunks ELSE r.chunks
    /\ flush' = [flush EXCEPT !.pc = "idle"]
    /\ UNCHANGED <<LLM, googleDNS, DefaultResolver>>
    /\ UNCHANGED <<appLanguage, document_queries, clock, ing, qry>>
    /\ UNCHANGED <<ckVars, scVars, srVars>>

-----------------------------------------------------------------------------
(* SimpleRAGService.Query and searchAllDocuments                           *)
(*                                                                         *)
(* A request works on the documents GetDocuments returned at its start.    *)
(* Its steps are its calls of the store and of the generation backend;     *)
(* what the code computes between two calls belongs to the step of the     *)
(* first.  searchAllDocuments has no caller in the repository; it is       *)
(* modelled as a request of its own, given the documents its caller would  *)
(* have loaded.                                                            *)

docLimit == 50
chunkLimit == 50
queryTopN == 5
searchTopN == 8
retryTopN == 3
sourceLimit == 5
contextCap == 12000
\* The relevance floors 0.2 and 0.1 and the confidence ceiling 1.0, in tenths.
queryFloor == 2
searchFloor == 1
sourceFloor == 1
confidenceCeiling == 10

\* The answers of the service itself.
Msg ==
    [noDocuments |->
        <<"I don't have any documents in my knowledge base yet. ...">>,
     noContent |->
        <<"I don't have any processed content in my knowledge base yet. ...">>,
     noRelevant |->
        <<"I don't have enough relevant information to answer that question accurately.">>,
     notInDocuments |->
        <<"I don't have that information in the provided documents.">>,
     notInDocumentsFa |->
        <<"(fa) this information is not in the documents.">>]

\* []xs[:n] when len(xs) > n, else xs
TopN(xs, n) == IF Len(xs) > n THEN SubSeq(xs, 1, n) ELSE xs

RECURSIVE OrderByCreatedAtDesc(_, _)
\* ORDER BY created_at DESC over rows ks of the table: the orders the
\* statement may return; rows of the same second come in any order.
OrderByCreatedAtDesc(docs, ks) ==
    IF ks = {} THEN {<<>>}
    ELSE LET newest == {k \in ks : \A o \in ks : docs[k].CreatedAt >= docs[o].CreatedAt}
         IN  UNION {{<<docs[k]>> \o rest : rest \in OrderByCreatedAtDesc(docs, ks \ {k})} :
                      k \in newest}

\* GetDocuments(limit, 0): the results the statement may have.
GetDocuments(docs, limit) ==
    {TopN(rows, limit) : rows \in OrderByCreatedAtDesc(docs, DOMAIN docs)}

RECURSIVE OrderByChunkIndex(_)
\* ORDER BY chunk_index ASC
OrderByChunkIndex(rows) ==
    IF rows = {} THEN <<>>
    ELSE LET r == CHOOSE r \in rows : \A o \in rows : r.ChunkIndex <= o.ChunkIndex
         IN  <<r>> \o OrderByChunkIndex(rows \ {r})

\* GetChunksByDocument with the WHERE clause left out.
GetChunksOfAnyDocument(chs, documentID, limit) ==
    TopN(OrderByChunkIndex(ChunkRows(chs)), limit)

\* GetChunksByDocument(documentID, limit, 0): the rows of the document,
\* ORDER BY chunk_index ASC (a document's rows have distinct indexes).
GetChunksByDocument(chs, documentID, limit) ==
    TopN(OrderByChunkIndex({r \in ChunkRows(chs) : r.DocumentID = documentID}), limit)

\* The status test with "failed" as the only excluded status.
IsQueriedUnlessFailed(doc) == doc.Status # "failed"

\* if doc.Status == "completed": the documents whose chunks a query reads
IsQueried(doc) == doc.Status = "completed"

\* The index of the first queried document after position di, or 0.
NextQueried(docs, di) ==
    LET later == {k \in DOMAIN docs : k > di /\ IsQueried(docs[k])}
    IN  IF later = {} THEN 0 ELSE Min(later)

RECURSIVE InsertByScore(_, _)
InsertByScore(sorted, x) ==
    IF sorted = <<>> THEN <<x>>
    ELSE IF ScoreGt(x.Score, Head(sorted).Score) THEN <<x>> \o sorted
    ELSE <<Head(sorted)>> \o InsertByScore(Tail(sorted), x)

RECURSIVE SortByScore(_)
\* sort.Slice(xs, func(i, j) { return xs[i].Score > xs[j].Score }).  For the
\* slices of at most 12 elements of this model Go sorts by insertion, which
\* keeps the order of equal scores.
SortByScore(xs) ==
    IF xs = <<>> THEN <<>>
    ELSE InsertByScore(SortByScore(SubSeq(xs, 1, Len(xs) - 1)), xs[Len(xs)])

\* scoredChunks: every chunk with its score against the question words
ScoreAll(questionWords, allChunks) ==
    [i \in DOMAIN allChunks |->
        [Chunk |-> allChunks[i],
         Score |-> CalculateRelevanceScore(questionWords, ToLower(allChunks[i].ChunkText))]]

RECURSIVE BestScore(_, _)
\* bestScore: if scoredChunk.Score > bestScore { bestScore = scoredChunk.Score }
BestScore(xs, best) ==
    IF xs = <<>> THEN best
    ELSE BestScore(Tail(xs), IF ScoreGt(Head(xs).Score, best) THEN Head(xs).Score ELSE best)

\* The selection without the sort: the first n chunks as they were loaded.
SelectContextUnsorted(scored, n, floor) ==
    LET used == SelectSeq(TopN(scored, n), LAMBDA c : ScoreAboveTenths(c.Score, floor))
    IN  [contextParts |-> [i \in DOMAIN used |-> used[i].Chunk.ChunkText],
         bestScore |-> BestScore(used, ZeroScore)]

\* The selection with the score of the last of the top n as its best score,
\* whether or not that chunk passed the floor.
SelectContextLastOfTop(scored, n, floor) ==
    LET topChunks == TopN(SortByScore(scored), n)
        used == SelectSeq(topChunks, LAMBDA c : ScoreAboveTenths(c.Score, floor))
    IN  [contextParts |-> [i \in DOMAIN used |-> used[i].Chunk.ChunkText],
         bestScore |-> IF topChunks = <<>> THEN ZeroScore
                       ELSE topChunks[Len(topChunks)].Score]

\* The chunks of the top n that pass the floor, and their best score.
SelectContext(scored, n, floor) ==
    LET topChunks == TopN(SortByScore(scored), n)
        used == SelectSeq(topChunks, LAMBDA c : ScoreAboveTenths(c.Score, floor))
    IN  [contextParts |-> [i \in DOMAIN used |-> used[i].Chunk.ChunkText],
         bestScore |-> BestScore(used, ZeroScore)]

\* if len(context) > 12000 { context = context[:12000] } (texts of this model
\* stay below the cap)
CapContext(context) ==
    IF GoLen(context) > contextCap THEN SubSeq(context, 1, contextCap) ELSE context

\* The confidence without the ceiling.
UnclampedConfidence(bestScore) == bestScore

\* confidence := bestScore; if confidence > 1.0 { confidence = 1.0 }
ClampConfidence(bestScore) ==
    IF ScoreAboveTenths(bestScore, confidenceCeiling) THEN [num |-> 1, den |-> 1]
    ELSE bestScore

\* The English markers, tested on the answer as returned (not lowercased).
HasEnglishMarkerCaseSensitive(answer) ==
    \/ Contains(answer, Marker.thatInformation)
    \/ Contains(answer, Marker.enoughInformation)
    \/ Contains(answer, Marker.notFound)
    \/ Contains(answer, Marker.notAvailable)

\* The four English markers, tested on strings.ToLower(answer).
HasEnglishMarker(answer) ==
    LET answerLower == ToLower(answer)
    IN  \/ Contains(answerLower, Marker.thatInformation)
        \/ Contains(answerLower, Marker.enoughInformation)
        \/ Contains(answerLower, Marker.notFound)
        \/ Contains(answerLower, Marker.notAvailable)

\* The test of Query (English markers or the Persian one) and the test of
\* searchAllDocuments (English markers only).
IndicatesNoKnowledge(kind, answer) ==
    IF kind = "Query" THEN HasEnglishMarker(answer) \/ Contains(answer, Marker.fa)
    ELSE HasEnglishMarker(answer)

\* formatSourceWithDocumentID(source, documents): "documentId|filename" of the
\* first document with that original filename, else the source as it is.
formatSourceWithDocumentID(source, docs) ==
    IF source = "" THEN <<"">>
    ELSE LET hits == {k \in DOMAIN docs : docs[k].OriginalFilename = source}
         IN  IF hits = {} THEN <<source>> ELSE <<docs[Min(hits)].ID, "|", source>>

\* The entry of one document in sourceScores whatever its maximum chunk score.
SourceScoreOfAnyScore(questionWords, doc, rows) ==
    <<[Filename |-> doc.OriginalFilename,
       Score |-> BestScore(ScoreAll(questionWords, rows), ZeroScore)]>>

\* The entry of one document in sourceScores: its maximum chunk score, kept
\* when above 0.1.
SourceScoreOf(questionWords, doc, rows) ==
    LET maxScore == BestScore(ScoreAll(questionWords, rows), ZeroScore)
    IN  IF ScoreAboveTenths(maxScore, sourceFloor)
        THEN <<[Filename |-> doc.OriginalFilename, Score |-> maxScore]>>
        ELSE <<>>

\* The sources sorted and formatted, none cut off.
FormatAllSources(sourceScores, docs) ==
    LET sorted == SortByScore(sourceScores)
    IN  [i \in DOMAIN sorted |-> formatSourceWithDocumentID(sorted[i].Filename, docs)]

\* The end of getTopRelevantSources and the formatting loop of its caller.
FormatTopSources(sourceScores, docs) ==
    LET topSources == TopN(SortByScore(sourceScores), sourceLimit)
    IN  [i \in DOMAIN topSources |->
            formatSourceWithDocumentID(topSources[i].Filename, docs)]

Response(answer, sources, confidence, context) ==
    [Answer |-> answer, Sources |-> sources, Confidence |-> confidence,
     Context |-> context]

EmptyResponse(msg) == Response(msg, <<>>, ZeroScore, <<>>)

\* The request with its response set and its position at the return.
Responded(q, response) == [q EXCEPT !.pc = "returned", !.response = response]

\* A request that calls the generation backend again after its error.
FailedRetrying(q, err) ==
    IF err = "generate" THEN [q EXCEPT !.pc = "generate"]
    ELSE [q EXCEPT !.pc = "returned", !.err = err]

\* The request that returns (nil, err).
Failed(q, err) == [q EXCEPT !.pc = "returned", !.err = err]

\* The request whose handler called a method of the nil LLMClient: the
\* goroutine panics (nil pointer dereference) and nothing is returned.
Panicked(q) == [q EXCEPT !.pc = "panic"]

HasResponse(q) == q.pc = "returned" /\ q.err = "nil"

\* The request with its context chosen from the scored chunks, at the call of
\* the generation backend.
WithContext(q, sel) ==
    [q EXCEPT !.pc = "generate",
              !.contextParts = sel.contextParts,
              !.bestScore = sel.bestScore,
              !.context = IF q.kind = "Query"
                          THEN Join(sel.contextParts, <<"\n", "\n">>)
                          ELSE CapContext(Join(sel.contextParts,
                                   <<"\n", "\n", "-", "-", "-", "\n", "\n">>))]

\* The retrieval that translates the question whenever the first pass
\* selected nothing, whatever the configured language.
AfterRetrievalAnyLanguage(q, lang) ==
    IF Len(q.allChunks) = 0 THEN Responded(q, EmptyResponse(Msg.noContent))
    ELSE LET scored == ScoreAll(q.questionWords, q.allChunks)
             sel == IF q.kind = "Query" THEN SelectContext(scored, queryTopN, queryFloor)
                    ELSE SelectContext(scored, searchTopN, searchFloor)
             p == [q EXCEPT !.firstPass = Len(sel.contextParts)]
         IN  IF Len(sel.contextParts) = 0
             THEN IF q.kind = "searchAllDocuments"
                  THEN [p EXCEPT !.pc = "translate"]
                  ELSE Responded(p, EmptyResponse(Msg.noRelevant))
             ELSE WithContext(p, sel)

\* From the end of the loop that loads the chunks to the next call of a
\* collaborator: the early exits, scoring, sorting and context building.
AfterRetrieval(q, lang) ==
    IF Len(q.allChunks) = 0 THEN Responded(q, EmptyResponse(Msg.noContent))
    ELSE LET scored == ScoreAll(q.questionWords, q.allChunks)
             sel == IF q.kind = "Query" THEN SelectContext(scored, queryTopN, queryFloor)
                    ELSE SelectContext(scored, searchTopN, searchFloor)
             p == [q EXCEPT !.firstPass = Len(sel.contextParts)]
         IN  IF Len(sel.contextParts) = 0
             THEN IF q.kind = "searchAllDocuments" /\ lang = "fa"
                  THEN [p EXCEPT !.pc = "translate"]
                  ELSE Responded(p, EmptyResponse(Msg.noRelevant))
             ELSE WithContext(p, sel)

\* After translateToEnglish returned (translated, tErr): the second scoring pass.
AfterTranslation(q, tErr, translated) ==
    IF ~tErr /\ TrimSpace(translated) # <<>>
    THEN LET enWords == Fields(ToLower(translated))
             sel == SelectContext(ScoreAll(enWords, q.allChunks), retryTopN, searchFloor)
         IN  IF Len(sel.contextParts) = 0
             THEN Responded(q, EmptyResponse(Msg.noRelevant))
             ELSE WithContext(q, sel)
    ELSE Responded(q, EmptyResponse(Msg.noRelevant))

\* After GenerateText returned the answer: the negative finding, or on to
\* getTopRelevantSources.
AfterAnswer(q, lang, answer) ==
    LET a == [q EXCEPT !.answer = answer, !.answered = TRUE]
    IN  IF IndicatesNoKnowledge(q.kind, answer)
        THEN Responded(a, Response(IF q.kind = "Query" /\ lang = "fa"
                                   THEN Msg.notInDocumentsFa ELSE Msg.notInDocuments,
                                   <<>>, ZeroScore, q.context))
        ELSE [a EXCEPT !.pc = "sources", !.si = 0]

\* After the loop of getTopRelevantSources: the grounded answer.
AfterSources(q) ==
    Responded(q, Response(q.answer, FormatTopSources(q.sourceScores, q.documents),
                          ClampConfidence(q.bestScore), q.context))

\* The row of the audit insert without the context.
QueryRecordWithoutContext(question, response) ==
    [Question |-> question, Answer |-> response.Answer,
     Confidence |-> response.Confidence, Sources |-> response.Sources,
     Context |-> <<>>]

\* storeQuery: the row of the audit insert
QueryRecordOf(question, response) ==
    [Question |-> question, Answer |-> response.Answer,
     Confidence |-> response.Confidence, Sources |-> response.Sources,
     Context |-> response.Context]

\* storeQuery returning the error of InsertQuery to the caller of Query.
storeQueryOrFail(q, insertFails) ==
    IF insertFails
    THEN [q EXCEPT !.err = "audit",
                   !.audit = Append(@, [record |-> QueryRecordOf(q.question, q.response),
                                        failed |-> TRUE])]
    ELSE [q EXCEPT !.audit = Append(@, [record |-> QueryRecordOf(q.question, q.response),
                                        failed |-> FALSE])]

\* storeQuery(ctx, question, response) of a request about to return its
\* response: one InsertQuery of the record, its error logged and dropped.
\* audit lists the InsertQuery calls of the request and how each ended.
storeQuery(q, insertFails) ==
    [q EXCEPT !.audit = Append(@, [record |-> QueryRecordOf(q.question, q.response),
                                   failed |-> insertFails])]

\* GoogleGeminiAdapter.GenerateText, g.Client.Do(req): whether the transport
\* dials.  It does for its first request and, later, whenever it has no idle
\* connection.  With Config.GoogleDNS set the dial goes through the
\* dialContext closure of NewGoogleGeminiAdapter, which assigns
\* net.DefaultResolver before it dials.
Dials ==
    IF ~googleDNS THEN {FALSE}
    ELSE IF DefaultResolver = 0 THEN {TRUE}
    ELSE BOOLEAN

\* The effects common to the steps of a query: the request moves to q2; when
\* q2 returns a response storeQuery runs (InsertQuery failing or not), and the
\* errors of the step are counted.  A step that is a call of the generation
\* backend may have dialled.
QueryMoves(q2, stepFails, auditFails, dials) ==
    /\ auditFails => HasResponse(q2)
    /\ faults + Count(stepFails) + Count(auditFails) <= MaxFaults
    /\ faults' = faults + Count(stepFails) + Count(auditFails)
    /\ qry' = IF HasResponse(q2) THEN storeQuery(q2, auditFails) ELSE q2
    /\ document_queries' =
          IF HasResponse(q2) /\ ~auditFails
          THEN Append(document_queries, QueryRecordOf(q2.question, q2.response))
          ELSE document_queries
    /\ DefaultResolver' = IF dials THEN DefaultResolver + 1 ELSE DefaultResolver
    /\ UNCHANGED <<appLanguage, LLM, googleDNS, documents, document_chunks, clock, ing,
                   flush>>
    /\ UNCHANGED <<ckVars, scVars, srVars>>

\* Entry of Query (or of searchAllDocuments with the documents its caller
\* loaded): GetDocuments(50, 0) and what follows without a further read.
QueryStart ==
    /\ qry.pc \in {"idle", "returned"}
    /\ qry.runs < MaxQuery
    /\ MayStart
    /\ \E kind \in {"Query", "searchAllDocuments"}, question \in Questions,
          getFails \in BOOLEAN :
         \E snapshot \in (IF ~getFails THEN GetDocuments(documents, docLimit)
                           ELSE IF kind = "Query" THEN {<<>>} ELSE {}) :
           LET q == [QryIdle EXCEPT !.runs = qry.runs + 1,
                                    !.kind = kind,
                                    !.question = question,
                                    !.questionWords = Fields(ToLower(question)),
                                    !.documents = snapshot]
               q2 == IF getFails THEN Failed(q, "documents")
                     ELSE IF kind = "Query" /\ Len(snapshot) = 0
                     THEN Responded(q, EmptyResponse(Msg.noDocuments))
                     ELSE IF NextQueried(snapshot, 0) = 0
                     THEN AfterRetrieval(q, appLanguage)
                     ELSE [q EXCEPT !.pc = "chunks"]
           IN  \E auditFails \in BOOLEAN : QueryMoves(q2, getFails, auditFails, FALSE)

\* One iteration of the loop that loads the chunks: GetChunksByDocument for
\* the next completed document of the snapshot, a failing document skipped.
QueryFetchChunks ==
    /\ qry.pc = "chunks"
    /\ \E getFails \in BOOLEAN :
         LET idx == NextQueried(qry.documents, qry.di)
             rows == IF getFails THEN <<>>
                     ELSE GetChunksByDocument(document_chunks, qry.documents[idx].ID,
                                              chunkLimit)
             q1 == [qry EXCEPT !.di = idx, !.allChunks = @ \o rows]
             q2 == IF NextQueried(qry.documents, idx) = 0
                   THEN AfterRetrieval(q1, appLanguage) ELSE q1
         IN  \E auditFails \in BOOLEAN : QueryMoves(q2, getFails, auditFails, FALSE)

\* translateToEnglish: one call of the generation backend
QueryTranslate ==
    /\ qry.pc = "translate"
    /\ \E tErr \in BOOLEAN, translated \in Translations :
         /\ tErr => translated = <<" ">>
         /\ LLM = "nil" => ~tErr /\ translated = <<" ">>
         /\ LET q1 == [qry EXCEPT !.llmCalls = @ + 1, !.translateCalls = @ + 1]
                q2 == IF LLM = "nil" THEN Panicked(qry)
                      ELSE AfterTranslation(q1, tErr, translated)
            IN  \E auditFails \in BOOLEAN, dials \in Dials :
                  QueryMoves(q2, tErr, auditFails, dials)

\* answer, err := r.LLM.GenerateText(ctx, prompt)
QueryGenerate ==
    /\ qry.pc = "generate"
    /\ \E genFails \in BOOLEAN, answer \in Answers :
         /\ genFails => answer = Answer.plain
         /\ LLM = "nil" => ~genFails /\ answer = Answer.plain
         /\ LET q1 == [qry EXCEPT !.llmCalls = @ + 1]
                q2 == IF LLM = "nil" THEN Panicked(qry)
                      ELSE IF genFails THEN Failed(q1, "generate")
                      ELSE AfterAnswer(q1, appLanguage, answer)
            IN  \E auditFails \in BOOLEAN, dials \in Dials :
                  QueryMoves(q2, genFails, auditFails, dials)

\* One iteration of the loop of getTopRelevantSources: GetChunksByDocument for
\* the next completed document of the snapshot, a failing document skipped.
QueryFetchSources ==
    /\ qry.pc = "sources"
    /\ \E getFails \in BOOLEAN :
         LET idx == NextQueried(qry.documents, qry.si)
             rows == IF getFails THEN <<>>
                     ELSE GetChunksByDocument(document_chunks, qry.documents[idx].ID,
                                              chunkLimit)
             q1 == [qry EXCEPT !.si = idx,
                               !.sourceChunks = @ \o rows,
                               !.sourceScores = @ \o
                                   (IF getFails THEN <<>>
                                    ELSE SourceScoreOf(qry.questionWords,
                                                       qry.documents[idx], rows))]
             q2 == IF NextQueried(qry.documents, idx) = 0 THEN AfterSources(q1) ELSE q1
         IN  \E auditFails \in BOOLEAN : QueryMoves(q2, getFails, auditFails, FALSE)

-----------------------------------------------------------------------------
(* The service                                                             *)

Init ==
    /\ ChunkIdle
    /\ ScoreIdle
    /\ SortIdle
    /\ appLanguage \in {"en", "fa"}
    /\ LLM = "google"
    /\ googleDNS = FALSE
    /\ DefaultResolver = 0
    /\ documents = <<>>
    /\ document_chunks = [id \in {} |-> 0]
    /\ document_queries = <<>>
    /\ clock = [id |-> 1, now |-> 0]
    /\ faults = 0
    /\ ing = [p \in 1..MaxIngest |-> IngIdle]
    /\ flush = [pc |-> "idle", runs |-> 0]
    /\ qry = QryIdle

Next ==
    \/ \E p \in 1..MaxIngest :
         \/ ProcessPDFStart(p)
         \/ ProcessPDFReject(p)
         \/ ProcessPDFStoreChunk(p)
         \/ ProcessPDFComplete(p)
    \/ FlushChunks
    \/ FlushDocuments
    \/ QueryStart
    \/ QueryFetchChunks
    \/ QueryTranslate
    \/ QueryGenerate
    \/ QueryFetchSources

Spec == Init /\ [][Next]_vars

-----------------------------------------------------------------------------
(* Queries over a corpus: the store as uploads that met no failure leave   *)
(* it, and the requests that read it.                                      *)

\* The number of documents of a corpus.
MaxDocs == 6

\* The files of a corpus, by subject, and the names they are uploaded under.
CorpusKinds == <<"paris", "berlin", "rome">>
CorpusFiles ==
    << <<"paris-1.pdf", "paris-2.pdf", "paris-3.pdf", "paris-4.pdf",
         "paris-5.pdf", "paris-6.pdf", "paris-7.pdf", "paris-8.pdf">>,
       <<"berlin-1.pdf", "berlin-2.pdf", "berlin-3.pdf", "berlin-4.pdf",
         "berlin-5.pdf", "berlin-6.pdf", "berlin-7.pdf", "berlin-8.pdf">>,
       <<"rome-1.pdf", "rome-2.pdf", "rome-3.pdf", "rome-4.pdf",
         "rome-5.pdf", "rome-6.pdf", "rome-7.pdf", "rome-8.pdf">> >>

RECURSIVE StoreChunks(_, _, _, _, _)
\* for i, chunk := range chunks { InsertChunk(chunkRecord) }, from index i on
StoreChunks(docs, chs, documentID, chunks, i) ==
    IF i >= Len(chunks) THEN chs
    ELSE StoreChunks(docs,
                     InsertChunk(docs, chs, ChunkRecordOf(documentID, chunks[i + 1], i)).chunks,
                     documentID, chunks, i + 1)

\* ProcessPDF without a failing collaborator and without another request
\* between its steps: the tables after the call.
ProcessPDF(docs, chs, pdf, filename, documentID, createdAt) ==
    LET ex == ExtractTextFromPDF(pdf, filename)
        created == InsertDocument(docs, [ID |-> documentID,
                                         OriginalFilename |-> filename,
                                         Status |-> "processing",
                                         ChunkCount |-> 0,
                                         CreatedAt |-> createdAt])
    IN  IF ex.err \/ Len(ex.chunks) = 0
        THEN [documents |-> UpdateDocumentStatus(created, documentID, "failed"),
              chunks |-> chs]
        ELSE [documents |->
                 UpdateDocumentStatus(
                     UpdateDocumentChunkCount(created, documentID, Len(ex.chunks)),
                     documentID, "completed"),
              chunks |-> StoreChunks(created, chs, documentID, ex.chunks, 0)]

\* One upload while the corpus is built, before the first query: a whole
\* ProcessPDF call.  The files about Paris come first, then those about
\* Berlin, then those about Rome; uploads are a second apart, except that
\* the second may come within the second of the first.
CorpusUpload ==
    /\ qry.pc = "idle"
    /\ Len(documents) < MaxDocs
    /\ \E j \in DOMAIN CorpusKinds,
          later \in (IF Len(documents) = 1 THEN {0, 1} ELSE {1}) :
         LET n == Len(documents) + 1
             store == ProcessPDF(documents, document_chunks, Pdfs[CorpusKinds[j]],
                                 CorpusFiles[j][n], clock.id, clock.now + later)
             last == IF n = 1 THEN "" ELSE documents[n - 1].OriginalFilename
         IN  /\ \A i \in (j + 1)..Len(CorpusKinds) : last \notin Range(CorpusFiles[i])
             /\ documents' = store.documents
             /\ document_chunks' = store.chunks
             /\ clock' = [id |-> clock.id + 1, now |-> clock.now + later]
    /\ UNCHANGED <<LLM, googleDNS, DefaultResolver>>
    /\ UNCHANGED <<appLanguage, document_queries, faults, ing, flush, qry>>
    /\ UNCHANGED <<ckVars, scVars, srVars>>

RECURSIVE LoadedChunks(_, _, _)
\* The loop of Query that loads the chunks of the completed documents, from
\* position di of the snapshot on, no read failing.
LoadedChunks(docs, chs, di) ==
    LET idx == NextQueried(docs, di)
    IN  IF idx = 0 THEN <<>>
        ELSE GetChunksByDocument(chs, docs[idx].ID, chunkLimit)
             \o LoadedChunks(docs, chs, idx)

RECURSIVE SourceScores(_, _, _, _)
\* The loop of getTopRelevantSources from position si of the snapshot on, no
\* read failing.
SourceScores(questionWords, docs, chs, si) ==
    LET idx == NextQueried(docs, si)
    IN  IF idx = 0 THEN <<>>
        ELSE SourceScoreOf(questionWords, docs[idx],
                           GetChunksByDocument(chs, docs[idx].ID, chunkLimit))
             \o SourceScores(questionWords, docs, chs, idx)

\* The Sources of the response of a Query call that meets no failure, whose
\* GetDocuments returned docs, that reads the chunks chs, and whose
\* generation backend answers with answer when it is called.
SourcesOfQuery(question, docs, chs, answer) ==
    LET questionWords == Fields(ToLower(question))
        allChunks == LoadedChunks(docs, chs, 0)
        sel == SelectContext(ScoreAll(questionWords, allChunks), queryTopN, queryFloor)
    IN  IF \/ Len(allChunks) = 0
           \/ Len(sel.contextParts) = 0
           \/ IndicatesNoKnowledge("Query", answer)
        THEN <<>>
        ELSE FormatTopSources(SourceScores(questionWords, docs, chs, 0), docs)

CorpusInit ==
    /\ ChunkIdle
    /\ ScoreIdle
    /\ SortIdle
    /\ appLanguage \in {"en", "fa"}
    /\ LLM = "google"
    /\ googleDNS = FALSE
    /\ DefaultResolver = 0
    /\ documents = <<>>
    /\ document_chunks = [id \in {} |-> 0]
    /\ document_queries = <<>>
    /\ clock = [id |-> 1, now |-> 0]
    /\ faults = MaxFaults
    /\ ing = [p \in 1..MaxIngest |-> IngIdle]
    /\ flush = [pc |-> "idle", runs |-> 0]
    /\ qry = QryIdle

CorpusNext ==
    \/ CorpusUpload
    \/ QueryStart
    \/ QueryFetchChunks
    \/ QueryTranslate
    \/ QueryGenerate
    \/ QueryFetchSources

SpecCorpus == CorpusInit /\ [][CorpusNext]_vars

-----------------------------------------------------------------------------
(* Uploads and queries of a service whose generation backend is the Gemini *)
(* adapter with Config.GoogleDNS set; no collaborator call fails.          *)

\* The ProcessPDF calls in progress.  Each has calls of the store ahead, and
\* a store call that opens a connection resolves the database host through
\* net.DefaultResolver.
Ingesting == {p \in DOMAIN ing : ing[p].pc \notin {"idle", "returned"}}

ResolverInit ==
    /\ ChunkIdle
    /\ ScoreIdle
    /\ SortIdle
    /\ appLanguage \in {"en", "fa"}
    /\ LLM = "google"
    /\ googleDNS = TRUE
    /\ DefaultResolver = 0
    /\ documents = <<>>
    /\ document_chunks = [id \in {} |-> 0]
    /\ document_queries = <<>>
    /\ clock = [id |-> 1, now |-> 0]
    /\ faults = MaxFaults
    /\ ing = [p \in 1..MaxIngest |-> IngIdle]
    /\ flush = [pc |-> "idle", runs |-> 0]
    /\ qry = QryIdle

ResolverNext ==
    \/ \E p \in 1..MaxIngest :
         \/ ProcessPDFStart(p)
         \/ ProcessPDFReject(p)
         \/ ProcessPDFStoreChunk(p)
         \/ ProcessPDFComplete(p)
    \/ QueryStart
    \/ QueryFetchChunks
    \/ QueryTranslate
    \/ QueryGenerate
    \/ QueryFetchSources

SpecResolver == ResolverInit /\ [][ResolverNext]_vars

-----------------------------------------------------------------------------
(* sort.Slice(xs, func(i, j) { return xs[i].Score > xs[j].Score }), as     *)
(* Query, getTopRelevantSources and the /search-sources handler call it    *)

\* The length of the longest slice sorted.
MaxRank == 13

RECURSIVE DescendingOrders(_, _)
\* The orders of the elements ks of xs in which no element comes before one
\* of greater score.
DescendingOrders(xs, ks) ==
    IF ks = {} THEN {<<>>}
    ELSE LET top == {k \in ks : \A o \in ks : ~ScoreGt(xs[o].Score, xs[k].Score)}
         IN  UNION {{<<xs[k]>> \o rest : rest \in DescendingOrders(xs, ks \ {k})} :
                      k \in top}

\* The results sort.Slice may leave.  It sorts a slice of at most 12 elements
\* by insertion; for a longer one it promises the order of the comparison
\* only ("the sort is not guaranteed to be stable").
SortSlice(xs) ==
    IF Len(xs) <= 12 THEN {SortByScore(xs)} ELSE DescendingOrders(xs, DOMAIN xs)

\* The slices sorted: sourceScores of n documents, the k-th with score (k+1)/10,
\* but for one (j) that has the score of an earlier one (i); i = j for none.
SortInputs ==
    LET names == CorpusFiles[1] \o CorpusFiles[2] \o CorpusFiles[3]
    IN  {[k \in 1..n |-> [Filename |-> names[k],
                          Score |-> [num |-> (IF k = p[2] THEN p[1] ELSE k) + 1,
                                    den |-> 10]]] :
            n \in 0..MaxRank, p \in {q \in (1..MaxRank) \X (1..MaxRank) : q[1] <= q[2]}}

SortInit ==
    /\ ChunkIdle
    /\ ScoreIdle
    /\ ServiceIdle
    /\ sr_slice \in SortInputs
    /\ sr_sorted = <<>>
    /\ sr_pc = "call"

SortCall ==
    /\ sr_pc = "call"
    /\ sr_sorted' \in SortSlice(sr_slice)
    /\ sr_pc' = "done"
    /\ UNCHANGED sr_slice
    /\ UNCHANGED <<ckVars, scVars, svVars>>

SortNext == SortCall

SpecSort == SortInit /\ [][SortNext]_vars

-----------------------------------------------------------------------------
(* Uploads and queries of a service configured with an LLM provider other  *)
(* than "google" and "ollama": main passes LLMClient(nil) to the service.  *)
(* No collaborator call fails.                                             *)

RetrievalOnlyInit ==
    /\ ChunkIdle
    /\ ScoreIdle
    /\ SortIdle
    /\ appLanguage \in {"en", "fa"}
    /\ LLM = "nil"
    /\ googleDNS = FALSE
    /\ DefaultResolver = 0
    /\ documents = <<>>
    /\ document_chunks = [id \in {} |-> 0]
    /\ document_queries = <<>>
    /\ clock = [id |-> 1, now |-> 0]
    /\ faults = MaxFaults
    /\ ing = [p \in 1..MaxIngest |-> IngIdle]
    /\ flush = [pc |-> "idle", runs |-> 0]
    /\ qry = QryIdle

RetrievalOnlyNext ==
    \/ \E p \in 1..MaxIngest :
         \/ ProcessPDFStart(p)
         \/ ProcessPDFReject(p)
         \/ ProcessPDFStoreChunk(p)
         \/ ProcessPDFComplete(p)
    \/ QueryStart
    \/ QueryFetchChunks
    \/ QueryTranslate
    \/ QueryGenerate

SpecRetrievalOnly == RetrievalOnlyInit /\ [][RetrievalOnlyNext]_vars

-----------------------------------------------------------------------------
(* Queries over a store of about as many documents as one read of Query    *)
(* returns: GetDocuments(50, 0), GetChunksByDocument(id, 50, 0); no        *)
(* collaborator call fails.                                                *)

\* The number of documents of the largest store.
MaxStored == 51

\* The tables after n uploads of the file about Paris under n names, one a
\* second, no call failing.
Stored(n) ==
    LET chunks == Extracted["paris", "a.pdf"].chunks
        name == [k \in 1..n |-> "paris-" \o ToString(k) \o ".pdf"]
        rows == {ChunkRecordOf(k, [chunks[i] EXCEPT
                                      !.ChunkID = ChunkIDOf(name[k], @[2], @[3])], i - 1) :
                    k \in 1..n, i \in DOMAIN chunks}
    IN  [documents |-> [k \in 1..n |-> [ID |-> k,
                                        OriginalFilename |-> name[k],
                                        Status |-> "completed",
                                        ChunkCount |-> Len(chunks),
                                        CreatedAt |-> k]],
         chunks |-> [id \in {r.ID : r \in rows} |-> CHOOSE r \in rows : r.ID = id]]

StoredInit ==
    /\ ChunkIdle
    /\ ScoreIdle
    /\ SortIdle
    /\ appLanguage \in {"en", "fa"}
    /\ LLM = "google"
    /\ googleDNS = FALSE
    /\ DefaultResolver = 0
    /\ \E n \in (MaxStored - 2)..MaxStored :
          /\ documents = Stored(n).documents
          /\ document_chunks = Stored(n).chunks
          /\ clock = [id |-> n + 1, now |-> n]
    /\ document_queries = <<>>
    /\ faults = MaxFaults
    /\ ing = [p \in 1..MaxIngest |-> IngIdle]
    /\ flush = [pc |-> "idle", runs |-> 0]
    /\ qry = QryIdle

StoredNext ==
    \/ QueryStart
    \/ QueryFetchChunks
    \/ QueryTranslate
    \/ QueryGenerate
    \/ QueryFetchSources

SpecStored == StoredInit /\ [][StoredNext]_vars

-----------------------------------------------------------------------------
(* C1: for a Query call whose read of the store (GetDocuments) found no    *)
(* document with status "completed" (an empty store included), the         *)
(* generation backend is never called, and a returned response has         *)
(* Confidence 0, an empty Sources list and an empty Context.               *)
C1_NoCompletedNoAnswer ==
    (/\ qry.kind = "Query"
     /\ \A k \in DOMAIN qry.documents : qry.documents[k].Status # "completed")
    => /\ qry.llmCalls = 0
       /\ qry.pc \notin {"generate", "translate", "sources"}
       /\ HasResponse(qry) =>
            /\ qry.response.Confidence.num = 0
            /\ qry.response.Sources = <<>>
            /\ qry.response.Context = <<>>

\* A Query has answered from a snapshot with no completed document in which a
\* document still processing has chunks about the question in the store.
C1_Witness ==
    /\ HasResponse(qry)
    /\ qry.kind = "Query"
    /\ qry.question = QuestionParis
    /\ \A k \in DOMAIN qry.documents : qry.documents[k].Status # "completed"
    /\ \E k \in DOMAIN qry.documents :
         /\ qry.documents[k].Status = "processing"
         /\ \E r \in ChunkRows(document_chunks) :
              /\ r.DocumentID = qry.documents[k].ID
              /\ Contains(r.ChunkText, <<"P", "a", "r", "i", "s">>)

(* C2: whenever the text the generation backend returned contains, once    *)
(* lowercased, one of the four English insufficient-information markers    *)
(* (or, in Query, contains the Persian marker), the returned response has  *)
(* Confidence 0 and an empty Sources list, whatever the retrieval scores    *)
(* and the rest of the answer.                                             *)
C2_MarkerMeansNoConfidence ==
    (/\ HasResponse(qry)
     /\ qry.answered
     /\ \/ \E m \in {Marker.thatInformation, Marker.enoughInformation,
                     Marker.notFound, Marker.notAvailable} :
              Contains(ToLower(qry.answer), m)
        \/ qry.kind = "Query" /\ Contains(qry.answer, Marker.fa))
    => /\ qry.response.Confidence.num = 0
       /\ qry.response.Sources = <<>>

\* Query returned the negative finding for an answer that carries the marker in
\* capitals among other text, on a context whose best score is above 1.
C2_Witness ==
    /\ HasResponse(qry)
    /\ qry.kind = "Query"
    /\ qry.answer = Answer.hedged
    /\ ScoreAboveTenths(qry.bestScore, 10)
    /\ qry.response.Confidence.num = 0
    /\ qry.response.Context # <<>>

(* C3: every response returned by Query or searchAllDocuments, on every    *)
(* path, has 0 <= Confidence <= 1.                                         *)
C3_ConfidenceInUnitInterval ==
    HasResponse(qry) =>
        /\ qry.response.Confidence.den > 0
        /\ qry.response.Confidence.num >= 0
        /\ qry.response.Confidence.num <= qry.response.Confidence.den

\* A grounded answer whose best chunk score is above 1 came back with
\* Confidence 1.
C3_Witness ==
    /\ HasResponse(qry)
    /\ qry.response.Sources # <<>>
    /\ qry.bestScore.num > qry.bestScore.den
    /\ qry.response.Confidence.num = qry.response.Confidence.den

(* C4: every chunk record a query reads, for its context and confidence    *)
(* or for its source list, belongs at the time of the read to a document   *)
(* whose status is "completed": records of documents that are processing   *)
(* or failed never contribute, in any interleaving with ProcessPDF calls.  *)
C4_OnlyCompletedContribute ==
    [][\A r \in (Range(qry'.allChunks) \ Range(qry.allChunks))
                \cup (Range(qry'.sourceChunks) \ Range(qry.sourceChunks)) :
          \E k \in DOMAIN documents :
             /\ documents[k].ID = r.DocumentID
             /\ documents[k].Status = "completed"]_vars

\* A query has built its context from a completed document while the snapshot
\* it works on holds a processing document whose ingestion, still in its
\* chunk loop, has stored chunks.
C4_Witness ==
    /\ qry.pc = "sources"
    /\ qry.contextParts # <<>>
    /\ \E p \in DOMAIN ing :
         /\ ing[p].pc = "store"
         /\ ing[p].k >= 1
         /\ \E k \in DOMAIN qry.documents :
              /\ qry.documents[k].ID = ing[p].documentID
              /\ qry.documents[k].Status = "processing"
         /\ \E r \in ChunkRows(document_chunks) : r.DocumentID = ing[p].documentID

(* C5: once a chunk record has been stored, no later step changes its text *)
(* or its owning document: a record can only disappear by deletion.        *)
C5_StoredChunksImmutable ==
    [][\A id \in (DOMAIN document_chunks) \cap (DOMAIN document_chunks') :
          /\ document_chunks'[id].ChunkText = document_chunks[id].ChunkText
          /\ document_chunks'[id].DocumentID = document_chunks[id].DocumentID]_vars

(* C6: when a ProcessPDF call that created a document record has returned, *)
(* the record (while it exists) has status "completed" and chunk_count     *)
(* equal to the number of extracted chunks if the call returned success,   *)
(* and status "failed" if it returned an error: never "processing".        *)
C6_ReturnedNeverProcessing ==
    \A p \in DOMAIN ing :
       (ing[p].pc = "returned" /\ ing[p].created) =>
          \A k \in DOMAIN documents :
             documents[k].ID = ing[p].documentID =>
                IF ing[p].err = "nil"
                THEN /\ documents[k].Status = "completed"
                     /\ documents[k].ChunkCount = Len(ing[p].chunks)
                ELSE documents[k].Status = "failed"

(* C7: when the extraction of an uploaded PDF yields zero chunks, the      *)
(* ProcessPDF call returns an error, the document's status is "failed"     *)
(* and no chunk record is stored for it.                                   *)
C7_ZeroChunksFails ==
    \A p \in DOMAIN ing :
       (/\ ing[p].pc = "returned"
        /\ ing[p].created
        /\ ~ing[p].extractErr
        /\ Len(ing[p].chunks) = 0)
       => /\ ing[p].err = "nochunks"
          /\ \A k \in DOMAIN documents :
                documents[k].ID = ing[p].documentID => documents[k].Status = "failed"
          /\ \A r \in ChunkRows(document_chunks) : r.DocumentID # ing[p].documentID

(* C8: for any input text, splitIntoChunks never emits a chunk whose       *)
(* trimmed text is shorter than 50 characters.                             *)
C8_NoShortChunk ==
    \A k \in DOMAIN ck_chunks : RuneCount(TrimSpace(ck_chunks[k])) >= 50

(* C9: for any two consecutive chunks k and k+1 of one page, the text of   *)
(* chunk k+1 begins with the trailing words of chunk k: its last 20 words, *)
(* or all of its words when it has fewer than 20.                          *)
C9_OverlapPrefix ==
    \A k \in 1..(Len(ck_chunks) - 1) :
        LET w1 == Fields(ck_chunks[k])
            w2 == Fields(ck_chunks[k + 1])
            t  == IF Len(w1) > 20 THEN SubSeq(w1, Len(w1) - 19, Len(w1)) ELSE w1
        IN  /\ Len(t) <= Len(w2)
            /\ SubSeq(w2, 1, Len(t)) = t

\* A call has returned at least two chunks, the first of more than 20 words.
C9_Witness ==
    /\ ck_pc = "done"
    /\ Len(ck_chunks) >= 2
    /\ Len(Fields(ck_chunks[1])) > 20

(* C10: CalculateRelevanceScore is deterministic and non-negative: the     *)
(* score an evaluation returns does not depend on the order in which the   *)
(* accent-replacement map and the chunk term-frequency map are visited     *)
(* (it equals the score of any other evaluation), and it is >= 0.          *)
C10_DeterministicNonNegative ==
    sc_pc = "done" =>
        /\ ScoreEq(sc_score, CalculateRelevanceScore(sc_q, sc_chunk))
        /\ sc_score.den > 0
        /\ sc_score.num >= 0

\* An evaluation that visited the accent table out of source order and a
\* term-frequency map of three keys in another order than the reference
\* evaluation, with an accented chunk and a score that comes from a partial
\* match.
C10_Witness ==
    /\ sc_pc = "done"
    /\ sc_order[1] # SourceOrder
    /\ Len(sc_order[2]) >= 3
    /\ sc_order[2] # SomeOrder(ChunkKeys(sc_chunk))
    /\ \E k \in DOMAIN sc_chunk : sc_chunk[k] \in WideChars
    /\ sc_q = <<Word.parisian>>
    /\ sc_score.num > 0

(* C11: scoring is monotonic in term coverage: appending to the query      *)
(* token list a token that exactly matches a token of the chunk yields a   *)
(* CalculateRelevanceScore that is not lower than the score of the list    *)
(* alone.                                                                  *)
C11_MonotonicInCoverage ==
    sc_pc = "done" =>
        \A t \in ChunkKeys(sc_chunk) :
            ~ScoreGt(sc_score, CalculateRelevanceScore(Append(sc_q, t), sc_chunk))

(* C12: calling Query twice with the same question over an unchanged       *)
(* corpus, the generation backend returning the same text, yields the same *)
(* Sources in the same order: whatever GetDocuments returns to the second  *)
(* call, its Sources are those of the response of the first.               *)
C12_SameSourcesOnRepeat ==
    (HasResponse(qry) /\ qry.kind = "Query") =>
        \A again \in GetDocuments(documents, docLimit) :
            SourcesOfQuery(qry.question, again, document_chunks, qry.answer)
                = qry.response.Sources

(* C13: the Sources list of every response of Query or searchAllDocuments  *)
(* has at most 5 entries, however many completed documents matched.        *)
C13_AtMostFiveSources ==
    HasResponse(qry) => Len(qry.response.Sources) <= 5

\* A grounded response over six documents that each passed the source floor:
\* five of them are listed.
C13_Witness ==
    /\ HasResponse(qry)
    /\ Len(qry.sourceScores) = 6
    /\ Len(qry.response.Sources) = 5

(* C19: in Query, after the scored chunks are sorted by descending score,  *)
(* exactly the top 3 chunks (all of them when fewer exist) are considered  *)
(* for the context, so the context is built from at most 3 chunks.         *)
C19_ContextFromTopThree ==
    (qry.kind = "Query" /\ qry.pc = "generate") => Len(qry.contextParts) <= 3

(* C19, as the code has it: in Query exactly the top 5 chunks by           *)
(* descending score are considered.  The context is built from at most 5   *)
(* chunks; it has as many parts as chunks score above 0.2, up to 5; and    *)
(* its i-th part has the i-th highest score of all loaded chunks.          *)
C19_ContextFromTopFive ==
    (qry.kind = "Query" /\ qry.pc = "generate") =>
        LET score(text) == CalculateRelevanceScore(qry.questionWords, ToLower(text))
            chunkScore == [j \in DOMAIN qry.allChunks |-> score(qry.allChunks[j].ChunkText)]
            partScore == [i \in DOMAIN qry.contextParts |-> score(qry.contextParts[i])]
            above == {j \in DOMAIN chunkScore : ScoreAboveTenths(chunkScore[j], 2)}
        IN  /\ Len(qry.contextParts) <= 5
            /\ Len(qry.contextParts) = Min({5, Cardinality(above)})
            /\ \A i \in DOMAIN partScore :
                  /\ Cardinality({j \in DOMAIN chunkScore :
                                    ScoreGt(chunkScore[j], partScore[i])}) < i
                  /\ Cardinality({j \in DOMAIN chunkScore :
                                    ~ScoreGt(partScore[i], chunkScore[j])}) >= i

\* Six chunks passed the floor, one scoring lower than the others: the
\* context is made of the five best.
C19_Witness ==
    /\ qry.kind = "Query"
    /\ qry.pc = "generate"
    /\ Len(qry.contextParts) = 5
    /\ Len(qry.allChunks) = 6
    /\ \E j \in DOMAIN qry.allChunks :
         /\ qry.allChunks[j].ChunkText \notin Range(qry.contextParts)
         /\ ScoreAboveTenths(CalculateRelevanceScore(qry.questionWords,
                                 ToLower(qry.allChunks[j].ChunkText)), 2)

C15_AuditFailureHidden ==
    (/\ qry.kind = "Query"
     /\ qry.pc = "returned"
     /\ qry.audit # <<>>
     /\ qry.audit[1].failed)
    => /\ qry.err = "nil"
       /\ QueryRecordOf(qry.question, qry.response) = qry.audit[1].record
       /\ \/ qry.response.Answer \in Range(Msg)
          \/ /\ qry.response.Answer = qry.answer
             /\ qry.response.Sources = FormatTopSources(qry.sourceScores, qry.documents)
             /\ qry.response.Confidence = ClampConfidence(qry.bestScore)
             /\ qry.response.Context = qry.context

\* The insert of a grounded answer failed and the answer was returned.
C15_Witness ==
    /\ HasResponse(qry)
    /\ qry.kind = "Query"
    /\ qry.audit # <<>>
    /\ qry.audit[1].failed
    /\ qry.response.Sources # <<>>
    /\ qry.response.Answer = Answer.plain

(* C16: the answer-generation call is made at most once per query and is   *)
(* never retried: when GenerateText returned an error the query has        *)
(* returned that error, with no response and no audit insert, after        *)
(* exactly one generation call.                                            *)
C16_GenerateOnceNoRetry ==
    /\ qry.llmCalls - qry.translateCalls <= 1
    /\ qry.err = "generate" =>
          /\ qry.pc = "returned"
          /\ qry.llmCalls - qry.translateCalls = 1
          /\ qry.response = QryIdle.response
          /\ ~qry.answered
          /\ qry.audit = <<>>

\* A Query whose generation call failed.
C16_Witness ==
    /\ qry.kind = "Query"
    /\ qry.err = "generate"
    /\ qry.pc = "returned"
    /\ qry.contextParts # <<>>

(* C17: in searchAllDocuments the cross-lingual retry happens at most once *)
(* per query; the translation call is made only when the configured        *)
(* language is "fa" and only after the first scoring pass has selected     *)
(* zero context chunks; when the first pass yields context no translation  *)
(* call is made.                                                           *)
C17_RetryOnceAfterFirstPass ==
    qry.kind = "searchAllDocuments" =>
        /\ qry.translateCalls <= 1
        /\ (qry.translateCalls = 1 \/ qry.pc = "translate") =>
              /\ appLanguage = "fa"
              /\ qry.firstPass = 0
        /\ qry.firstPass > 0 => (qry.translateCalls = 0 /\ qry.pc # "translate")

\* The first pass selected nothing, the question was translated once, and
\* the second pass found the context of the answer that is returned.
C17_Witness ==
    /\ qry.kind = "searchAllDocuments"
    /\ qry.translateCalls = 1
    /\ qry.firstPass = 0
    /\ HasResponse(qry)
    /\ qry.response.Answer = Answer.plain
    /\ qry.response.Context # <<>>

(* C20: when the primary path of a Query selects no chunk, the secondary   *)
(* path (top 8 chunks, floor 0.1, cross-lingual retry) is executed before  *)
(* "no relevant information" is returned: a Query call that returns that   *)
(* result found no chunk above 0.1 among its top 8 and, the language being *)
(* "fa", has made the translation call of the retry.                       *)
C20_FallbackBeforeNoRelevant ==
    (/\ HasResponse(qry)
     /\ qry.kind = "Query"
     /\ qry.response.Answer = Msg.noRelevant)
    => /\ SelectContext(ScoreAll(qry.questionWords, qry.allChunks), 8, 1).contextParts = <<>>
       /\ appLanguage = "fa" => qry.translateCalls = 1

(* C18: concurrent query and ingestion requests share no mutable state     *)
(* other than the storage collaborators: no step of a request, the calls   *)
(* of the generation-backend adapter included, writes a process-wide       *)
(* variable (here net.DefaultResolver) while another request that reads    *)
(* it is in progress.                                                      *)
C18_NoSharedProcessState ==
    [][DefaultResolver' # DefaultResolver => Ingesting = {}]_vars

(* C26: chunks are size-bounded: every chunk splitIntoChunks emits, with   *)
(* its final word removed, is shorter than the 1000-character target,      *)
(* chunks that start from a seeded overlap included.                       *)
C26_SizeBounded ==
    \A k \in DOMAIN ck_chunks :
        LET w == Fields(ck_chunks[k])
        IN  RuneCount(Join(SubSeq(w, 1, Len(w) - 1), <<" ">>)) < maxChunkSize

(* C27: chunking loses no text: when splitIntoChunks has returned at least *)
(* one chunk, every word of the page is a word of some chunk, and the last *)
(* word of the page is the last word of the last chunk.                    *)
C27_NoTextLost ==
    (ck_pc = "done" /\ ck_chunks # <<>>) =>
        /\ \A i \in DOMAIN ck_words :
              \E k \in DOMAIN ck_chunks : ck_words[i] \in Range(Fields(ck_chunks[k]))
        /\ LET w == Fields(ck_chunks[Len(ck_chunks)])
           IN  w[Len(w)] = ck_words[Len(ck_words)]

(* C21: ranking is descending by score and stable: after the sort no       *)
(* candidate comes before one of greater score, and any two candidates of  *)
(* equal score are in the order they had in the list before the sort.      *)
C21_StableDescending ==
    sr_pc = "done" =>
        /\ \A a, b \in DOMAIN sr_sorted :
              a < b => ~ScoreGt(sr_sorted[b].Score, sr_sorted[a].Score)
        /\ \A a, b \in DOMAIN sr_slice :
              (a < b /\ ScoreEq(sr_slice[a].Score, sr_slice[b].Score)) =>
                  \E i, j \in DOMAIN sr_sorted :
                      /\ i < j
                      /\ sr_sorted[i] = sr_slice[a]
                      /\ sr_sorted[j] = sr_slice[b]

(* C22: a Query loads and scores every chunk of every completed document   *)
(* of the store, however many documents there are, and a failing chunk     *)
(* fetch does not fail the query: once the loop that loads the chunks is   *)
(* over the query has no error of that loop, and (no read having failed)   *)
(* every chunk row of a completed document is among the chunks scored.     *)
C22_EveryChunkLoaded ==
    (qry.kind = "Query" /\ qry.pc \notin {"idle", "chunks"}) =>
        /\ qry.err \in {"nil", "documents", "generate"}
        /\ \A r \in ChunkRows(document_chunks) :
              (\E k \in DOMAIN documents :
                  documents[k].ID = r.DocumentID /\ IsQueried(documents[k]))
              => r \in Range(qry.allChunks)

C25_RetrievalOnlyReturns ==
    (LLM = "nil" /\ qry.kind = "Query" /\ qry.contextParts # <<>>) =>
        qry.pc \in {"generate", "returned"}

(* C28: once the ProcessPDF calls made have returned, every document with   *)
(* status "completed" has as many rows in document_chunks (rows whose       *)
(* document_id is its id) as its chunk_count says.                          *)
C28_ChunkCountMatchesRows ==
    Ingesting = {} =>
        \A k \in DOMAIN documents :
            documents[k].Status = "completed" =>
                Cardinality({r \in ChunkRows(document_chunks) :
                                r.DocumentID = documents[k].ID})
                    = documents[k].ChunkCount

(* C29: every entry "documentId|filename" of the Sources of a Query         *)
(* response names the id of a completed document whose own chunks have the  *)
(* score that ranked the entry, and no document id is named twice, also     *)
(* when documents share an original filename.                               *)
C29_SourcesNameTheirDocuments ==
    (qry.kind = "Query" /\ HasResponse(qry) /\ qry.response.Sources # <<>>) =>
        LET src == qry.response.Sources
            top == TopN(SortByScore(qry.sourceScores), sourceLimit)
        IN  /\ \A i, j \in DOMAIN src : i # j => src[i][1] # src[j][1]
            /\ \A i \in DOMAIN src :
                  \E k \in DOMAIN qry.documents :
                      /\ qry.documents[k].ID = src[i][1]
                      /\ IsQueried(qry.documents[k])
                      /\ \E r \in ChunkRows(document_chunks) :
                            /\ r.DocumentID = src[i][1]
                            /\ ScoreEq(top[i].Score,
                                       CalculateRelevanceScore(qry.questionWords,
                                                               ToLower(r.ChunkText)))

(* C30: whenever Query returns a grounded answer (Confidence > 0 and a      *)
(* non-empty Context) its Sources are non-empty, although the sources come  *)
(* from a second read of the chunks that a flush or an upload may precede   *)
(* and that may fail for a document.                                        *)
C30_GroundedAnswerHasSources ==
    (/\ qry.kind = "Query"
     /\ HasResponse(qry)
     /\ ScoreGt(qry.response.Confidence, ZeroScore)
     /\ qry.response.Context # <<>>) =>
        qry.response.Sources # <<>>

====
